---- MODULE Spec2Model ----
(***************************************************************************)
(* Model of scripts/PPG_models.py: main(), BaseModel, Processing,          *)
(* Training.nested_cross_validation, Training.hyperparameters and          *)
(* Training.run_model.                                                     *)
(*                                                                         *)
(* Conventions.                                                            *)
(*  - Observations of the CSV are numbered 0..n-1 (the RangeIndex pandas   *)
(*    gives the frame); a pandas Series is a sequence of [ix, v] records   *)
(*    (index label, value); a numpy array is a plain sequence.  Position p *)
(*    of a TLA+ sequence is numpy/iloc position p-1.                       *)
(*  - The feature table has one feature column.  A cell is <<>> (NaN) or   *)
(*    <<v>>.  Each row of a feature array also carries obs, the number of  *)
(*    the observation it was read from; the code keeps no such field, it   *)
(*    is there so that alignment can be stated.                            *)
(*  - Floating point values are exact rationals num/den in units of 1e-5;  *)
(*    rounding of IEEE doubles is not modelled.                            *)
(*  - sklearn is a library outside the repository.  What it computes from  *)
(*    the data by fitting classifiers (which grid candidate scores best,   *)
(*    what a fitted model predicts) is a deterministic function of its     *)
(*    arguments that the model cannot compute; the model ranges over a     *)
(*    family of such functions indexed by oracle.  RandomForestClassifier  *)
(*    is built without random_state, so for it the function also reads the *)
(*    process's global numpy generator, rng.  RandomState(42) is modelled  *)
(*    by a small linear congruential generator seeded with 42.             *)
(***************************************************************************)
EXTENDS Integers, Sequences, FiniteSets, TLC

VARIABLES
    pc,             \* position of the program
    stdin,          \* what the operator types at the prompt
    csv,            \* ppg_dataframe.csv: sequence of [Filename, State, x]
    oracle,         \* which behaviour the library's classifiers have
    rng,            \* global numpy generator of this process
    model_type,     \* BaseModel.model_type
    X, y, sessions, \* BaseModel.X, .y, .sessions
    X_train, X_test, y_train, y_test, sessions_train, sessions_test,
    scaler,         \* fitted StandardScaler: [n, sum, sumsq] or NoValue
    imputer,        \* fitted SimpleImputer: [fill] or NoValue
    X_train_val, y_train_val,   \* slice of the current outer fold
    best_hypers,    \* Per-Fold Configuration Log: name -> sequence of values
    final_hypers,   \* Final Configuration: name -> value
    model,          \* the final estimator: [family, params, fitted_on]
    y_pred,         \* predictions on X_test
    cm,             \* run_model's confusion matrix: rows of counts, <<>> before
    missed_csv,     \* misclassified_sessions.csv: [exists, rows]
    accuracy,       \* value run_model returns: NoValue or [correct, total]
    class_weighting,\* BaseModel.class_weighting: <<1, <<count0, count1>>>>
    stdout,         \* messages main prints
    trace,          \* stages executed by this run, in order
    searched,       \* per call of hyperparameters: the observations passed
    prev            \* what the previous run of the program left, or NoValue

vars == <<pc, stdin, csv, oracle, rng, model_type, X, y, sessions,
          X_train, X_test, y_train, y_test, sessions_train, sessions_test,
          scaler, imputer, X_train_val, y_train_val, best_hypers, final_hypers,
          model, y_pred, cm, missed_csv, accuracy, class_weighting, stdout,
          trace, searched, prev>>

NoValue == [none |-> TRUE]

(***************************************************************************)
(* Bounds of the model.                                                    *)
(***************************************************************************)
NumRows == 13       \* rows of the CSV that is large enough for the outer split
MaxVarRow == 2      \* observations 0..MaxVarRow may carry an unusual cell
MaxFeature == 1     \* an unusual cell is NaN or 0..MaxFeature
MaxOracle == 1      \* classifier behaviours 0..MaxOracle
MaxRng == 1         \* states 0..MaxRng of the global generator
MaxLen == 3         \* longest per-fold list given to the aggregation alone
MaxCell == 3        \* cells 0..MaxCell of the matrices given to confusion alone

(***************************************************************************)
(* Program constants.                                                      *)
(***************************************************************************)
KOuter == 10        \* KFold(n_splits=10, ...)
Seed == 42          \* random_state=42
TestPercent == 20   \* test_size=0.2
FillValue == 0      \* SimpleImputer(strategy='constant', fill_value=0)
Unit == 100000      \* 1.0 in units of 1e-5, the smallest grid literal

(***************************************************************************)
(* Arithmetic and sequence helpers.                                        *)
(***************************************************************************)
Abs(a) == IF a < 0 THEN -a ELSE a

Min(a, b) == IF a < b THEN a ELSE b

RECURSIVE Gcd(_, _)
Gcd(a, b) == IF b = 0 THEN a ELSE Gcd(b, a % b)

CeilDiv(a, b) == (a + b - 1) \div b

Range(s) == {s[i] : i \in DOMAIN s}

RECURSIVE SumSeq(_)
SumSeq(s) == IF s = <<>> THEN 0 ELSE Head(s) + SumSeq(Tail(s))

\* the elements of s at the positions listed in ix: s[ix], s.iloc[ix]
Take(s, ix) == [k \in 1..Len(ix) |-> s[ix[k]]]

\* the positions of 1..n that are in P, ascending
RECURSIVE Ascending(_, _)
Ascending(n, P) ==
    IF n = 0 THEN <<>>
    ELSE IF n \in P THEN Append(Ascending(n - 1, P), n) ELSE Ascending(n - 1, P)


(***************************************************************************)
(* main(): the prompt and the table of supported models.                   *)
(***************************************************************************)
Whitespace == {" "}

\* str.lower() on the characters the prompt is given here
LowerChar(c) ==
    CASE c = "S" -> "s" [] c = "V" -> "v" [] c = "M" -> "m"
      [] c = "R" -> "r" [] c = "K" -> "k" [] c = "N" -> "n"
      [] OTHER -> c

RECURSIVE LStrip(_)
LStrip(s) ==
    IF s # <<>> /\ Head(s) \in Whitespace THEN LStrip(Tail(s)) ELSE s

RECURSIVE RStrip(_)
RStrip(s) ==
    IF s # <<>> /\ s[Len(s)] \in Whitespace
    THEN RStrip(SubSeq(s, 1, Len(s) - 1)) ELSE s

\* input(...).strip().lower()
StripLower(s) == LET t == RStrip(LStrip(s)) IN [i \in DOMAIN t |-> LowerChar(t[i])]

\* model_functions: key typed at the prompt -> class
model_functions ==
    (<<"r","a","n","d","o","m"," ","f","o","r","e","s","t">> :> "RandomForest")
    @@ (<<"s","v","m">> :> "SupportVectorMachine")
    @@ (<<"g","a","u","s","s","i","a","n"," ","p","c">> :> "GaussianProcessC")
    @@ (<<"k","n","n">> :> "KNearestNeighbors")
    @@ (<<"g","a","u","s","s","i","a","n"," ","n","b">> :> "GaussianNaiveBayes")
    @@ (<<"q","d","a">> :> "QuadraticDiscriminant")

\* faulty variant: the subclasses set the key of the prompt as their model_type
ClassModelTypeAsTyped ==
    [SupportVectorMachine |-> "svm", RandomForest |-> "random forest",
     KNearestNeighbors |-> "knn", QuadraticDiscriminant |-> "qda",
     GaussianNaiveBayes |-> "gaussian nb", GaussianProcessC |-> "gaussian pc"]

\* the model_type each subclass of BaseModel sets in __init__
ClassModelType ==
    [SupportVectorMachine |-> "svm", RandomForest |-> "random_forest",
     KNearestNeighbors |-> "knn", QuadraticDiscriminant |-> "qda",
     GaussianNaiveBayes |-> "gaussian_nb", GaussianProcessC |-> "gaussian_pc"]

\* what the operator may type
Typed ==
    { <<" ","S","V","M">>,
      <<"k","n","n"," ">>,
      <<"q","d","a">>,
      <<"R","a","n","d","o","m"," ","f","o","r","e","s","t">>,
      <<"g","a","u","s","s","i","a","n"," ","n","b">>,
      <<"g","a","u","s","s","i","a","n"," ","p","c">>,
      <<"r","a","n","d","o","m","_","f","o","r","e","s","t">>,
      <<"l","d","a">>,
      <<>> }

(***************************************************************************)
(* ppg_dataframe.csv and Processing.extract_data.                          *)
(***************************************************************************)
NaN == <<>>

Cell(v) == <<v>>

BaseCell(i) == Cell((i * i + i \div 4) % 3)

Label(lab, i) ==
    CASE lab = "alternating" -> i % 2
      [] lab = "rare" -> IF i = 0 THEN 1 ELSE 0
      [] OTHER -> 0

Table(n, lab, vr, cell) ==
    [p \in 1..n |->
        [Filename |-> <<"ppg", p - 1>>,
         State |-> Label(lab, p - 1),
         x |-> IF p - 1 = vr THEN cell ELSE BaseCell(p - 1)]]

UnusualCells == {NaN} \cup {Cell(v) : v \in 0..MaxFeature}

\* a table too small for KFold(10) once a fifth is held out, and one that is not
Sizes == {KOuter, NumRows}

Tables ==
    {Table(n, "alternating", vr, c) :
        n \in Sizes, vr \in 0..MaxVarRow, c \in UnusualCells}
    \cup {Table(n, lab, 0, BaseCell(0)) : n \in Sizes, lab \in {"rare", "zeros"}}

\* the same file with at most one feature cell rewritten
Edited(t) ==
    {[t EXCEPT ![r + 1].x = c] : r \in 0..MaxVarRow, c \in UnusualCells}

\* y.value_counts()[c]: KeyError when no row has State c
ValueCount(t, c) == Cardinality({p \in DOMAIN t : t[p].State = c})

ExtractFails(t) == ValueCount(t, 0) = 0 \/ ValueCount(t, 1) = 0

ExtractX(t) == [p \in DOMAIN t |-> [ix |-> p - 1, x |-> t[p].x]]

ExtractY(t) == [p \in DOMAIN t |-> [ix |-> p - 1, v |-> t[p].State]]

ExtractSessions(t) == [p \in DOMAIN t |-> [ix |-> p - 1, v |-> t[p].Filename]]

ExtractWeighting(t) == <<1, <<ValueCount(t, 0), ValueCount(t, 1)>>>>

(***************************************************************************)
(* RandomState(seed): a linear congruential generator stands for numpy's.  *)
(***************************************************************************)
Lcg(s) == (75 * s + 74) % 65537

\* rng.shuffle(a): Fisher-Yates from the last position down
RECURSIVE Shuffle(_, _, _)
Shuffle(a, i, s) ==
    IF i <= 1 THEN [a |-> a, s |-> s]
    ELSE LET s1 == Lcg(s)
             j == 1 + (s1 % i)
         IN Shuffle([a EXCEPT ![i] = a[j], ![j] = a[i]], i - 1, s1)

\* rng.permutation(a)
Permutation(a, s) == Shuffle(a, Len(a), s)

(***************************************************************************)
(* train_test_split(X, y, sessions, test_size=0.2, random_state=42,        *)
(* stratify=y): sklearn's StratifiedShuffleSplit, one split.               *)
(***************************************************************************)
NTest(n) == CeilDiv(TestPercent * n, 100)

NTrain(n) == n - NTest(n)

\* np.where(y == c): the positions of class c, ascending
ClassPositions(ys, c) == Ascending(Len(ys), {p \in DOMAIN ys : ys[p].v = c})

\* _approximate_mode for two classes: floor of the proportional share, the
\* draw left over goes to the larger remainder, a tie is decided by rng
ApproximateMode(c0, c1, draws, s) ==
    LET tot == c0 + c1
        f0 == (c0 * draws) \div tot
        f1 == (c1 * draws) \div tot
        r0 == (c0 * draws) % tot
        r1 == (c1 * draws) % tot
        need == draws - f0 - f1
        s1 == IF need > 0 THEN Lcg(s) ELSE s
        to0 == IF r0 = r1 THEN s1 % 2 = 0 ELSE r0 > r1
    IN  IF need = 0 THEN [n0 |-> f0, n1 |-> f1, s |-> s1]
        ELSE IF to0 THEN [n0 |-> f0 + 1, n1 |-> f1, s |-> s1]
        ELSE [n0 |-> f0, n1 |-> f1 + 1, s |-> s1]

SplitFails(ys) ==
    LET c0 == Len(ClassPositions(ys, 0))
        c1 == Len(ClassPositions(ys, 1))
    IN  \/ Min(c0, c1) < 2
        \/ NTrain(Len(ys)) < 2
        \/ NTest(Len(ys)) < 2

\* the positions of the train and of the test rows, in the order they get
StratifiedShuffleSplit(ys) ==
    LET n == Len(ys)
        p0 == ClassPositions(ys, 0)
        p1 == ClassPositions(ys, 1)
        ni == ApproximateMode(Len(p0), Len(p1), NTrain(n), Seed)
        ti == ApproximateMode(Len(p0) - ni.n0, Len(p1) - ni.n1, NTest(n), ni.s)
        q0 == Permutation(p0, ti.s)
        q1 == Permutation(p1, q0.s)
        tr == Permutation(SubSeq(q0.a, 1, ni.n0) \o SubSeq(q1.a, 1, ni.n1), q1.s)
        te == Permutation(SubSeq(q0.a, ni.n0 + 1, ni.n0 + ti.n0)
                          \o SubSeq(q1.a, ni.n1 + 1, ni.n1 + ti.n1), tr.s)
    IN  [train |-> tr.a, test |-> te.a]

(***************************************************************************)
(* SimpleImputer(strategy='constant', fill_value=0) and StandardScaler.    *)
(***************************************************************************)
\* imputer.fit(rows): the constant strategy learns nothing but the fill value
ImputerFit(rows) == [fill |-> FillValue]

\* imputer.transform(frame): a numpy array, NaN replaced by the fill value
ImputerTransform(imp, rows) ==
    [p \in DOMAIN rows |->
        [obs |-> rows[p].ix,
         x |-> IF rows[p].x = NaN THEN imp.fill ELSE rows[p].x[1]]]

\* scaler.fit(array): mean_ = sum/n, var_ = sumsq/n - mean_^2
ScalerFit(arr) ==
    [n |-> Len(arr),
     sum |-> SumSeq([p \in DOMAIN arr |-> arr[p].x]),
     sumsq |-> SumSeq([p \in DOMAIN arr |-> arr[p].x * arr[p].x])]

\* (x - mean_) / scale_, scale_ = sqrt(var_) or 1 when var_ = 0, kept exact
\* as num / sqrt(den2)
Standardise(sc, x) ==
    LET v == sc.n * sc.sumsq - sc.sum * sc.sum
    IN  [num |-> sc.n * x - sc.sum, den2 |-> IF v > 0 THEN v ELSE sc.n * sc.n]

ScalerTransform(sc, arr) ==
    [p \in DOMAIN arr |-> [obs |-> arr[p].obs, x |-> Standardise(sc, arr[p].x)]]

(***************************************************************************)
(* KFold(n_splits=10, shuffle=True, random_state=42).split(X_train).       *)
(***************************************************************************)
KFoldFails(n) == KOuter > n

FoldSize(n, f) == n \div KOuter + (IF f <= n % KOuter THEN 1 ELSE 0)

FoldStart(n, f) == (f - 1) * (n \div KOuter) + Min(f - 1, n % KOuter)

\* fold f of 1..KOuter: test_ix is the f-th chunk of the shuffled positions,
\* train_ix the rest, both ascending (sklearn builds them from a mask)
KFoldTestIx(n, f) ==
    LET sh == Permutation([p \in 1..n |-> p], Seed).a
    IN  Ascending(n, {sh[q] : q \in FoldStart(n, f) + 1 .. FoldStart(n, f) + FoldSize(n, f)})

\* faulty variant: the held-out fold is not taken out of the slice
KFoldTrainIxLeak(n, f) == Ascending(n, 1..n)

KFoldTrainIx(n, f) ==
    Ascending(n, (1..n) \ Range(KFoldTestIx(n, f)))

(***************************************************************************)
(* Hyperparameter values and the grids of Training.hyperparameters.        *)
(***************************************************************************)
PyInt(v) == [t |-> "int", i |-> v]

PyFloat(u) == [t |-> "float", num |-> u, den |-> 1]

PyStr(v) == [t |-> "str", s |-> v]

PyBool(v) == [t |-> "bool", b |-> v]

PyNone == [t |-> "none"]

\* range(start, stop, step)
RECURSIVE PyRange(_, _, _)
PyRange(start, stop, step) ==
    IF start < stop THEN <<PyInt(start)>> \o PyRange(start + step, stop, step)
    ELSE <<>>

\* Processing.frange on floats (units of 1e-5)
RECURSIVE frange(_, _, _)
frange(start, stop, step) ==
    IF start < stop THEN <<PyFloat(start)>> \o frange(start + step, stop, step)
    ELSE <<>>

\* Processing.frange(0, ...): the first value yielded is the int it was given
frange0(stop, step) ==
    IF 0 < stop THEN <<PyInt(0)>> \o frange(step, stop, step) ELSE <<>>

\* Processing.mrange
RECURSIVE mrange(_, _, _)
mrange(start, stop, factor) ==
    IF start <= stop THEN <<PyFloat(start)>> \o mrange(start * factor, stop, factor)
    ELSE <<>>

\* np.logspace(lo, hi, hi - lo + 1) for lo = -2: 10^-2, 10^-1, ...
logspace(count) == mrange(Unit \div 100, (Unit \div 100) * (10 ^ (count - 1)), 10)

\* param_grid of each family, names in sorted order as ParameterGrid takes them
param_grid(m) ==
    CASE m = "svm" ->
           << [name |-> "C", values |-> frange0(Unit, Unit \div 10)],
              [name |-> "class_weight", values |-> <<PyStr("balanced")>>],
              [name |-> "degree", values |-> PyRange(1, 6, 1)],
              [name |-> "gamma", values |-> frange(Unit \div 50, Unit \div 20, Unit \div 1000)],
              [name |-> "kernel", values |-> <<PyStr("linear"), PyStr("poly"),
                                                PyStr("rbf"), PyStr("sigmoid")>>] >>
      [] m = "random_forest" ->
           << [name |-> "bootstrap", values |-> <<PyBool(FALSE)>>],
              [name |-> "max_depth", values |-> <<PyNone>>],
              [name |-> "max_features", values |-> <<PyStr("sqrt"), PyStr("log2")>>],
              [name |-> "min_samples_leaf", values |-> PyRange(1, 5, 1)],
              [name |-> "min_samples_split", values |-> PyRange(2, 8, 1)],
              [name |-> "n_estimators", values |-> PyRange(50, 100, 10)] >>
      [] m = "knn" ->
           << [name |-> "algorithm", values |-> <<PyStr("auto"), PyStr("ball_tree"),
                                                   PyStr("kd_tree"), PyStr("brute")>>],
              [name |-> "leaf_size", values |-> PyRange(10, 50, 10)],
              [name |-> "metric", values |-> <<PyStr("euclidean"), PyStr("manhattan"),
                                                PyStr("chebyshev"), PyStr("minkowski")>>],
              [name |-> "n_neighbors", values |-> PyRange(1, 10, 1)],
              [name |-> "p", values |-> <<PyInt(1), PyInt(2)>>],
              [name |-> "weights", values |-> <<PyStr("uniform"), PyStr("distance")>>] >>
      [] m = "qda" ->
           << [name |-> "reg_param", values |-> frange(Unit \div 10, Unit, Unit \div 10)] >>
      [] m = "gaussian_nb" ->
           << [name |-> "var_smoothing", values |-> mrange(1, Unit, 10)] >>
      [] m = "gaussian_pc" ->
           << [name |-> "c", values |-> logspace(5)],
              [name |-> "l", values |-> logspace(5)],
              [name |-> "max_iter_predict", values |-> PyRange(100, 500, 100)],
              [name |-> "n", values |-> logspace(3)] >>

\* the families Training.hyperparameters has a grid for (lines 222-279)
HasGrid(m) ==
    m \in {"svm", "random_forest", "knn", "qda", "gaussian_nb", "gaussian_pc"}

\* the families nested_cross_validation has a constructor for (lines 191-201)
HasConstructor(m) ==
    m \in {"svm", "random_forest", "knn", "qda", "gaussian_nb", "gaussian_pc"}

\* the cv argument of GridSearchCV
InnerFolds(m) == IF m = "qda" THEN 50 ELSE 5

\* the estimators built without random_state read the global generator
UsesGlobalRng(m) == m = "random_forest"

(***************************************************************************)
(* GridSearchCV(...).fit(X_train, y_train).best_params_                    *)
(***************************************************************************)
\* StratifiedKFold(cv).split raises when cv exceeds the rows or every class
GridSearchFails(m, Xs, ys) ==
    \/ InnerFolds(m) > Len(Xs)
    \/ \A c \in {0, 1} : InnerFolds(m) > Len(ClassPositions(ys, c))

\* a candidate whose fit raises scores nan and is never the best: SVC(C=0)
Scorable(m, name, v) ==
    ~(m = "svm" /\ name = "C" /\ v.t = "int" /\ v.i <= 0)

ScorableGrid(m) ==
    LET g == param_grid(m)
    IN  [j \in DOMAIN g |->
            [name |-> g[j].name,
             values |-> SelectSeq(g[j].values, LAMBDA v : Scorable(m, g[j].name, v))]]

RECURSIVE NumCandidates(_)
NumCandidates(g) ==
    IF g = <<>> THEN 1 ELSE Len(Head(g).values) * NumCandidates(Tail(g))

\* candidate number k of ParameterGrid(g): the last name varies fastest
RECURSIVE Candidate(_, _)
Candidate(g, k) ==
    IF g = <<>> THEN <<>>
    ELSE LET last == g[Len(g)]
             sz == Len(last.values)
         IN  Candidate(SubSeq(g, 1, Len(g) - 1), k \div sz)
             @@ (last.name :> last.values[(k % sz) + 1])

\* what a classifier sees of a row and of a data set: values, never labels of
\* the index
RowCode(r) == 2 * Abs(r.x.num) + r.x.den2

DataCode(Xs, ys) ==
    SumSeq([p \in DOMAIN Xs |-> p * (RowCode(Xs[p]) + 3 * ys[p].v + 1)]) % 1009

\* the number of the best-scoring candidate, as behaviour o of the library
\* decides it; r is the state of the global generator
BestIndex(m, Xs, ys, o, r) ==
    (DataCode(Xs, ys) * (2 * o + 3) + o + (IF UsesGlobalRng(m) THEN 7 * r ELSE 0))
        % NumCandidates(ScorableGrid(m))

BestParams(m, Xs, ys, o, r) == Candidate(ScorableGrid(m), BestIndex(m, Xs, ys, o, r))

\* lines 171-174: append every (key, value) to the log
LogAppend(log, params) ==
    [k \in DOMAIN log \cup DOMAIN params |->
        IF k \in DOMAIN params
        THEN (IF k \in DOMAIN log THEN Append(log[k], params[k]) ELSE <<params[k]>>)
        ELSE log[k]]

(***************************************************************************)
(* The aggregation of lines 176-186.                                       *)
(***************************************************************************)
\* isinstance(x, (float, int)); bool is a subclass of int
IsFloatOrInt(v) == v.t \in {"float", "int", "bool"}

\* isinstance(x, (int, str))
IsIntOrStr(v) == v.t \in {"int", "str", "bool"}

\* a number in units of 1e-5 (grid floats have den = 1)
AsUnits(v) ==
    CASE v.t = "int" -> v.i * Unit
      [] v.t = "bool" -> IF v.b THEN Unit ELSE 0
      [] OTHER -> v.num

\* faulty variant: np.sum in place of np.mean
MeanNotDivided(value) ==
    [t |-> "float", num |-> SumSeq([p \in DOMAIN value |-> AsUnits(value[p])]), den |-> 1]

\* np.mean(value): a float, sum / len
Mean(value) ==
    LET total == SumSeq([p \in DOMAIN value |-> AsUnits(value[p])])
        g == Gcd(Abs(total), Len(value))
    IN  [t |-> "float", num |-> total \div g, den |-> Len(value) \div g]

\* == between dictionary keys: True == 1 and False == 0
PyEq(a, b) ==
    IF a.t \in {"int", "bool"} /\ b.t \in {"int", "bool"}
    THEN AsUnits(a) = AsUnits(b) ELSE a = b

\* Counter(value): [key, count] in order of first insertion
RECURSIVE Counter(_)
Counter(value) ==
    IF value = <<>> THEN <<>>
    ELSE LET front == Counter(SubSeq(value, 1, Len(value) - 1))
             x == value[Len(value)]
         IN  IF \E j \in DOMAIN front : PyEq(front[j].key, x)
             THEN [j \in DOMAIN front |->
                     IF PyEq(front[j].key, x)
                     THEN [front[j] EXCEPT !.count = @ + 1] ELSE front[j]]
             ELSE Append(front, [key |-> x, count |-> 1])

\* faulty variant: among equally frequent values the last one inserted wins
RECURSIVE MostCommonLast(_)
MostCommonLast(items) ==
    IF Len(items) = 1 THEN items[1]
    ELSE LET best == MostCommonLast(SubSeq(items, 1, Len(items) - 1))
         IN  IF items[Len(items)].count >= best.count THEN items[Len(items)] ELSE best

\* counter.most_common(1)[0][0]: max over the items by count, the first wins
RECURSIVE MostCommon(_)
MostCommon(items) ==
    IF Len(items) = 1 THEN items[1]
    ELSE LET best == MostCommon(SubSeq(items, 1, Len(items) - 1))
         IN  IF items[Len(items)].count > best.count THEN items[Len(items)] ELSE best

Mode(value) == MostCommon(Counter(value)).key

\* final_hypers[key] after both ifs: <<>> when neither assigned it
AggregateKey(value) ==
    LET afterMean == IF \A p \in DOMAIN value : IsFloatOrInt(value[p])
                     THEN <<Mean(value)>> ELSE <<>>
    IN  IF \A p \in DOMAIN value : IsIntOrStr(value[p])
        THEN <<Mode(value)>> ELSE afterMean

Aggregate(log) ==
    [k \in {k \in DOMAIN log : AggregateKey(log[k]) # <<>>} |-> AggregateKey(log[k])[1]]

(***************************************************************************)
(* Lines 190-205: the final estimator; Training.run_model.                 *)
(***************************************************************************)
\* final_hypers['c'] etc. raise KeyError when the name was not aggregated
BuildFails(m, final) ==
    m = "gaussian_pc" /\ ~({"c", "l", "n", "max_iter_predict"} \subseteq DOMAIN final)

BuildModel(m, final) ==
    IF m = "gaussian_pc"
    THEN [family |-> m,
          params |-> [kernel |-> [t |-> "kernel", c |-> final["c"],
                                  l |-> final["l"], n |-> final["n"]],
                      max_iter_predict |-> final["max_iter_predict"]],
          fitted_on |-> "nothing", learned |-> 0]
    ELSE [family |-> m, params |-> final, fitted_on |-> "nothing", learned |-> 0]

\* what a value of the configuration contributes to the fitted model
ValueCode(v) ==
    CASE v.t = "int" -> v.i
      [] v.t = "float" -> v.num + v.den
      [] v.t = "bool" -> IF v.b THEN 1 ELSE 0
      [] v.t = "kernel" -> v.c.num + v.l.num + v.n.num
      [] OTHER -> 1

RECURSIVE ParamsCode(_, _)
ParamsCode(params, names) ==
    IF names = {} THEN 0
    ELSE LET k == CHOOSE k \in names : TRUE
         IN  (ValueCode(params[k]) + ParamsCode(params, names \ {k})) % 1009

\* model.fit(Xs, ys): what the model learned is a number
Fit(mdl, Xs, ys, what, r) ==
    [mdl EXCEPT !.fitted_on = what,
                !.learned = (DataCode(Xs, ys) + ParamsCode(mdl.params, DOMAIN mdl.params)
                             + (IF UsesGlobalRng(mdl.family) THEN r ELSE 0)) % 1009]

\* model.predict(Xt) of a fitted model, as behaviour o of the library decides
Predict(mdl, Xt, o) ==
    [p \in DOMAIN Xt |-> (mdl.learned + RowCode(Xt[p]) * (o + 1) + o * p) % 2]

\* faulty variant: the comparison is == instead of !=
MisclassifiedEq(st, yt, yp) ==
    LET keep == SelectSeq(st, LAMBDA e : \E p \in DOMAIN yt : yt[p].ix = e.ix /\ yt[p].v = yp[p])
    IN  [p \in DOMAIN keep |-> keep[p].v]

\* sessions_test[(y_test != y_pred)]: the comparison is by position and keeps
\* y_test's index; the boolean Series selects by index label
Misclassified(st, yt, yp) ==
    LET mask == [p \in DOMAIN yt |-> [ix |-> yt[p].ix, v |-> yt[p].v # yp[p]]]
        MaskAt(ix) == \E p \in DOMAIN mask : mask[p].ix = ix /\ mask[p].v
        keep == SelectSeq(st, LAMBDA e : MaskAt(e.ix))
    IN  [p \in DOMAIN keep |-> keep[p].v]

\* accuracy_score(y_test, y_pred)
AccuracyScore(yt, yp) ==
    [correct |-> Cardinality({p \in DOMAIN yt : yt[p].v = yp[p]}), total |-> Len(yt)]

\* roc_auc_score raises when y_test holds one class only
ReportFails(yt) == Cardinality({yt[p].v : p \in DOMAIN yt}) < 2

\* sorted(set(y_true) | set(y_pred)): the labels of the confusion matrix
SortedLabels(S) ==
    CHOOSE q \in [1..Cardinality(S) -> S] :
        \A i, j \in 1..Cardinality(S) : i < j => q[i] < q[j]

\* confusion_matrix(y_test, y_pred): row = true label, column = predicted
ConfusionMatrix(yt, yp) ==
    LET labels == SortedLabels({yt[p].v : p \in DOMAIN yt} \cup Range(yp))
    IN  [r \in DOMAIN labels |-> [c \in DOMAIN labels |->
            Cardinality({p \in DOMAIN yt : yt[p].v = labels[r] /\ yp[p] = labels[c]})]]

\* a / b on numpy integers and floats: a zero divisor gives nan or inf with
\* a warning, not an exception; a quotient is kept exact, in lowest terms
TrueDivide(a, b) ==
    IF b = 0
    THEN IF a = 0 THEN [t |-> "nan"] ELSE [t |-> "inf"]
    ELSE [t |-> "float", num |-> a \div Gcd(a, b), den |-> b \div Gcd(a, b)]

\* cm[1, 1] of a matrix with fewer than two labels: IndexError
ConfusionFails(m) == Len(m) < 2

\* faulty variant: specificity divides by TN + FN
confusionSlip(m) ==
    LET TP == m[1][1]
        TN == m[2][2]
        FP == m[1][2]
        FN == m[2][1]
    IN  [model_accuracy      |-> TrueDivide(TP + TN, TP + TN + FP + FN),
         model_error         |-> TrueDivide(FP + FN, TP + TN + FP + FN),
         precision           |-> TrueDivide(TP, TP + FP),
         recall              |-> TrueDivide(TP, TP + FN),
         true_positive_rate  |-> TrueDivide(TP, TP + FN),
         false_positive_rate |-> TrueDivide(FP, FP + TN),
         specificity         |-> TrueDivide(TN, TN + FN)]

\* Analysis.confusion: the dictionary confusion_stats it prints
confusion(m) ==
    LET TP == m[1][1]
        TN == m[2][2]
        FP == m[1][2]
        FN == m[2][1]
    IN  [model_accuracy      |-> TrueDivide(TP + TN, TP + TN + FP + FN),
         model_error         |-> TrueDivide(FP + FN, TP + TN + FP + FN),
         precision           |-> TrueDivide(TP, TP + FP),
         recall              |-> TrueDivide(TP, TP + FN),
         true_positive_rate  |-> TrueDivide(TP, TP + FN),
         false_positive_rate |-> TrueDivide(FP, FP + TN),
         specificity         |-> TrueDivide(TN, TN + FP)]

(***************************************************************************)
(* The program.                                                            *)
(***************************************************************************)
NoFile == [exists |-> FALSE, rows |-> <<>>]

\* the state of a process that has just started
Fresh ==
    /\ pc = "main"
    /\ model_type = "None"
    /\ X = <<>> /\ y = <<>> /\ sessions = <<>>
    /\ class_weighting = NoValue
    /\ X_train = <<>> /\ X_test = <<>>
    /\ y_train = <<>> /\ y_test = <<>>
    /\ sessions_train = <<>> /\ sessions_test = <<>>
    /\ scaler = NoValue /\ imputer = NoValue
    /\ X_train_val = <<>> /\ y_train_val = <<>>
    /\ best_hypers = <<>> /\ final_hypers = <<>>
    /\ model = NoValue
    /\ y_pred = <<>>
    /\ cm = <<>>
    /\ accuracy = NoValue
    /\ stdout = <<>>
    /\ trace = <<>>
    /\ searched = <<>>

Init ==
    /\ Fresh
    /\ stdin \in Typed
    /\ csv \in Tables
    /\ oracle \in 0..MaxOracle
    /\ rng \in 0..MaxRng
    /\ missed_csv = NoFile
    /\ prev = NoValue

\* faulty variant: the exception is caught and the stage is tried again
RaiseCaught(stage) ==
    /\ pc' = pc
    /\ trace' = Append(trace, stage)

\* an exception nobody catches ends the process: there is no try in the file
Raise(stage) ==
    /\ pc' = "raised"
    /\ trace' = Append(trace, stage)

\* a stage that completes
Advance(stage, next) ==
    /\ pc' = next
    /\ trace' = Append(trace, stage)

\* main(): lines 526-545, with BaseModel.__init__ and extract_data
Main ==
    /\ pc = "main"
    /\ LET key == StripLower(stdin)
       IN  IF key \in DOMAIN model_functions
           THEN IF ExtractFails(csv)
                THEN /\ Raise("raise_load")
                     /\ UNCHANGED <<model_type, X, y, sessions, class_weighting, stdout>>
                ELSE /\ X' = ExtractX(csv)
                     /\ y' = ExtractY(csv)
                     /\ sessions' = ExtractSessions(csv)
                     /\ class_weighting' = ExtractWeighting(csv)
                     /\ model_type' = ClassModelType[model_functions[key]]
                     /\ Advance("load", "run")
                     /\ UNCHANGED stdout
           ELSE /\ stdout' = Append(stdout, "not supported")
                /\ pc' = "exit"
                /\ UNCHANGED <<model_type, X, y, sessions, class_weighting, trace>>
    /\ UNCHANGED <<stdin, csv, oracle, rng, prev, X_train, X_test, y_train, y_test,
                   sessions_train, sessions_test, scaler, imputer, X_train_val,
                   y_train_val, best_hypers, searched, final_hypers, model, y_pred,
                   missed_csv, accuracy>>
    /\ UNCHANGED cm

\* BaseModel.run, lines 364-366
Run ==
    /\ pc = "run"
    /\ IF model_type = "None"
       THEN Raise("raise_run") /\ UNCHANGED stdout
       ELSE /\ stdout' = Append(stdout, "Running")
            /\ pc' = "split"
            /\ UNCHANGED trace
    /\ UNCHANGED <<stdin, csv, oracle, rng, prev, model_type, X, y, sessions,
                   class_weighting, X_train, X_test, y_train, y_test, sessions_train,
                   sessions_test, scaler, imputer, X_train_val, y_train_val,
                   best_hypers, searched, final_hypers, model, y_pred, missed_csv,
                   accuracy>>
    /\ UNCHANGED cm

\* line 147
Split ==
    /\ pc = "split"
    /\ IF SplitFails(y)
       THEN /\ Raise("raise_split")
            /\ UNCHANGED <<X_train, X_test, y_train, y_test, sessions_train,
                           sessions_test>>
       ELSE LET sp == StratifiedShuffleSplit(y)
            IN  /\ X_train' = Take(X, sp.train)
                /\ X_test' = Take(X, sp.test)
                /\ y_train' = Take(y, sp.train)
                /\ y_test' = Take(y, sp.test)
                /\ sessions_train' = Take(sessions, sp.train)
                /\ sessions_test' = Take(sessions, sp.test)
                /\ Advance("split", "preprocess")
    /\ UNCHANGED <<stdin, csv, oracle, rng, prev, model_type, X, y, sessions,
                   class_weighting, scaler, imputer, X_train_val, y_train_val,
                   best_hypers, searched, final_hypers, model, y_pred, missed_csv,
                   accuracy, stdout>>
    /\ UNCHANGED cm

\* lines 149-156
Preprocess ==
    /\ pc = "preprocess"
    /\ LET imp == ImputerFit(X_train)
           Xtr == ImputerTransform(imp, X_train)
           Xte == ImputerTransform(imp, X_test)
           sc == ScalerFit(Xtr)
       IN  /\ imputer' = imp
           /\ scaler' = sc
           /\ X_train' = ScalerTransform(sc, Xtr)
           /\ X_test' = ScalerTransform(sc, Xte)
    /\ Advance("preprocess", "outer")
    /\ UNCHANGED <<stdin, csv, oracle, rng, prev, model_type, X, y, sessions,
                   class_weighting, y_train, y_test, sessions_train, sessions_test,
                   X_train_val, y_train_val, best_hypers, searched, final_hypers,
                   model, y_pred, missed_csv, accuracy, stdout>>
    /\ UNCHANGED cm

\* the slice of outer fold f handed to the search (lines 164-165)
OuterTrainX(f) == Take(X_train, KFoldTrainIx(Len(X_train), f))

\* faulty variant: the labels are taken from the whole table, not from y_train
OuterTrainYWhole(f) == Take(y, KFoldTrainIx(Len(X_train), f))

OuterTrainY(f) == Take(y_train, KFoldTrainIx(Len(X_train), f))

\* one iteration of the loop of lines 162-174, or its end
OuterFold ==
    /\ pc = "outer"
    /\ LET f == Len(searched) + 1
       IN  IF KFoldFails(Len(X_train))
           THEN /\ Raise("raise_kfold")
                /\ UNCHANGED <<X_train_val, y_train_val, best_hypers, searched, rng>>
           ELSE IF f > KOuter
           THEN /\ pc' = "aggregate"
                /\ UNCHANGED <<X_train_val, y_train_val, best_hypers, searched, rng,
                               trace>>
           ELSE LET Xs == OuterTrainX(f)
                    ys == OuterTrainY(f)
                IN  /\ X_train_val' = Xs
                    /\ y_train_val' = ys
                    /\ searched' = Append(searched, {Xs[p].obs : p \in DOMAIN Xs})
                    /\ \/ /\ ~GridSearchFails(model_type, Xs, ys)
                          /\ best_hypers' =
                                LogAppend(best_hypers,
                                          BestParams(model_type, Xs, ys, oracle, rng))
                          /\ rng' = IF UsesGlobalRng(model_type) THEN Lcg(rng) ELSE rng
                          /\ Advance("search", "outer")
                       \/ /\ Raise("raise_search")
                          /\ UNCHANGED <<best_hypers, rng>>
    /\ UNCHANGED <<stdin, csv, oracle, prev, model_type, X, y, sessions,
                   class_weighting, X_train, X_test, y_train, y_test, sessions_train,
                   sessions_test, scaler, imputer, final_hypers, model, y_pred,
                   missed_csv, accuracy, stdout>>
    /\ UNCHANGED cm

\* faulty variant: the aggregation sits inside the loop: it runs after the first fold
AggregateLogInLoop ==
    /\ pc = "outer"
    /\ Len(searched) >= 1
    /\ final_hypers' = Aggregate(best_hypers)
    /\ Advance("aggregate", "build")
    /\ UNCHANGED <<stdin, csv, oracle, rng, prev, model_type, X, y, sessions,
                   class_weighting, X_train, X_test, y_train, y_test, sessions_train,
                   sessions_test, scaler, imputer, X_train_val, y_train_val,
                   best_hypers, searched, model, y_pred, missed_csv, accuracy, stdout>>
    /\ UNCHANGED cm

\* lines 176-188
AggregateLog ==
    /\ pc = "aggregate"
    /\ final_hypers' = Aggregate(best_hypers)
    /\ Advance("aggregate", "build")
    /\ UNCHANGED <<stdin, csv, oracle, rng, prev, model_type, X, y, sessions,
                   class_weighting, X_train, X_test, y_train, y_test, sessions_train,
                   sessions_test, scaler, imputer, X_train_val, y_train_val,
                   best_hypers, searched, model, y_pred, missed_csv, accuracy, stdout>>
    /\ UNCHANGED cm

\* lines 190-205
Build ==
    /\ pc = "build"
    /\ IF BuildFails(model_type, final_hypers)
       THEN Raise("raise_build") /\ UNCHANGED model
       ELSE /\ model' = BuildModel(model_type, final_hypers)
            /\ Advance("build", "fit")
    /\ UNCHANGED <<stdin, csv, oracle, rng, prev, model_type, X, y, sessions,
                   class_weighting, X_train, X_test, y_train, y_test, sessions_train,
                   sessions_test, scaler, imputer, X_train_val, y_train_val,
                   best_hypers, searched, final_hypers, y_pred, missed_csv, accuracy,
                   stdout>>
    /\ UNCHANGED cm

\* run_model line 339
FitFinal ==
    /\ pc = "fit"
    /\ \/ /\ model' = Fit(model, X_train, y_train, "train", rng)
          /\ rng' = IF UsesGlobalRng(model_type) THEN Lcg(rng) ELSE rng
          /\ Advance("fit", "predict")
       \/ /\ Raise("raise_fit")
          /\ UNCHANGED <<model, rng>>
    /\ UNCHANGED <<stdin, csv, oracle, prev, model_type, X, y, sessions,
                   class_weighting, X_train, X_test, y_train, y_test, sessions_train,
                   sessions_test, scaler, imputer, X_train_val, y_train_val,
                   best_hypers, searched, final_hypers, y_pred, missed_csv, accuracy,
                   stdout>>
    /\ UNCHANGED cm

\* run_model line 341
PredictTest ==
    /\ pc = "predict"
    /\ \/ /\ y_pred' = Predict(model, X_test, oracle)
          /\ Advance("predict", "report")
       \/ /\ Raise("raise_predict")
          /\ UNCHANGED y_pred
    /\ UNCHANGED <<stdin, csv, oracle, rng, prev, model_type, X, y, sessions,
                   class_weighting, X_train, X_test, y_train, y_test, sessions_train,
                   sessions_test, scaler, imputer, X_train_val, y_train_val,
                   best_hypers, searched, final_hypers, model, missed_csv, accuracy,
                   stdout>>
    /\ UNCHANGED cm

\* run_model lines 343-354: the statistics are printed before the ROC curve
\* is drawn and before the sessions are exported
Report ==
    /\ pc = "report"
    /\ cm' = ConfusionMatrix(y_test, y_pred)
    /\ IF ConfusionFails(ConfusionMatrix(y_test, y_pred))
       THEN Raise("raise_report") /\ UNCHANGED <<missed_csv, accuracy, stdout>>
       ELSE /\ stdout' = Append(stdout, confusion(ConfusionMatrix(y_test, y_pred)))
            /\ IF ReportFails(y_test)
               THEN Raise("raise_report") /\ UNCHANGED <<missed_csv, accuracy>>
               ELSE /\ missed_csv' = [exists |-> TRUE,
                                      rows |-> Misclassified(sessions_test, y_test, y_pred)]
                    /\ accuracy' = AccuracyScore(y_test, y_pred)
                    /\ Advance("export", "plot")
    /\ UNCHANGED <<stdin, csv, oracle, rng, prev, model_type, X, y, sessions,
                   class_weighting, X_train, X_test, y_train, y_test, sessions_train,
                   sessions_test, scaler, imputer, X_train_val, y_train_val,
                   best_hypers, searched, final_hypers, model, y_pred>>

\* BaseModel.run line 369 and the plot methods; main returns
Plot ==
    /\ pc = "plot"
    /\ model' = IF model_type = "svm"
                THEN Fit(model, X_train, y_train, "train_2d", rng)
                ELSE model
    /\ Advance("plot", "exit")
    /\ UNCHANGED <<stdin, csv, oracle, rng, prev, model_type, X, y, sessions,
                   class_weighting, X_train, X_test, y_train, y_test, sessions_train,
                   sessions_test, scaler, imputer, X_train_val, y_train_val,
                   best_hypers, searched, final_hypers, y_pred, missed_csv, accuracy,
                   stdout>>
    /\ UNCHANGED cm

\* what a finished run leaves for comparison with the next one
Snapshot ==
    [stdin |-> stdin, csv |-> csv, model_type |-> model_type, trace |-> trace,
     train |-> [p \in DOMAIN y_train |-> csv[y_train[p].ix + 1]],
     scaler |-> scaler, imputer |-> imputer, best_hypers |-> best_hypers,
     final_hypers |-> final_hypers, y_pred |-> y_pred, accuracy |-> accuracy]

\* the operator starts the program once more: a new process, the same answer
\* at the prompt, the files on disk as they are but for one edited cell
Rerun ==
    /\ pc = "exit"
    /\ prev = NoValue
    /\ prev' = Snapshot
    /\ pc' = "main"
    /\ model_type' = "None"
    /\ X' = <<>> /\ y' = <<>> /\ sessions' = <<>>
    /\ class_weighting' = NoValue
    /\ X_train' = <<>> /\ X_test' = <<>>
    /\ y_train' = <<>> /\ y_test' = <<>>
    /\ sessions_train' = <<>> /\ sessions_test' = <<>>
    /\ scaler' = NoValue /\ imputer' = NoValue
    /\ X_train_val' = <<>> /\ y_train_val' = <<>>
    /\ best_hypers' = <<>> /\ final_hypers' = <<>>
    /\ model' = NoValue
    /\ y_pred' = <<>>
    /\ cm' = <<>>
    /\ accuracy' = NoValue
    /\ stdout' = <<>>
    /\ trace' = <<>>
    /\ searched' = <<>>
    /\ csv' \in {csv} \cup Edited(csv)
    /\ rng' \in 0..MaxRng
    /\ UNCHANGED <<stdin, oracle, missed_csv>>

Next ==
    \/ Main
    \/ Run
    \/ Split
    \/ Preprocess
    \/ OuterFold
    \/ AggregateLog
    \/ Build
    \/ FitFinal
    \/ PredictTest
    \/ Report
    \/ Plot

Spec == Init /\ [][Next]_vars

\* the program run, and then run once more
NextRerun ==
    \/ Next
    \/ Rerun

SpecRerun == Init /\ [][NextRerun]_vars

(***************************************************************************)
(* The aggregation alone, on logs drawn from a bounded set.                *)
(***************************************************************************)
AggValues ==
    {PyInt(1), PyInt(2), PyFloat(Unit \div 10), PyFloat(Unit \div 5),
     PyFloat((3 * Unit) \div 10), PyStr("rbf"), PyStr("linear"), PyBool(TRUE), PyNone}

AggLists == UNION {[1..n -> AggValues] : n \in 1..MaxLen}

AggLogs ==
    {("p" :> v) : v \in AggLists}
    \cup {("p" :> v) @@ ("q" :> w) :
            v \in AggLists, w \in {<<PyNone>>, <<PyStr("sqrt"), PyStr("log2"), PyStr("log2")>>}}

InitAgg ==
    /\ pc = "aggregate"
    /\ best_hypers \in AggLogs
    /\ model_type = "knn"
    /\ X = <<>> /\ y = <<>> /\ sessions = <<>>
    /\ class_weighting = NoValue
    /\ X_train = <<>> /\ X_test = <<>>
    /\ y_train = <<>> /\ y_test = <<>>
    /\ sessions_train = <<>> /\ sessions_test = <<>>
    /\ scaler = NoValue /\ imputer = NoValue
    /\ X_train_val = <<>> /\ y_train_val = <<>>
    /\ final_hypers = <<>>
    /\ model = NoValue
    /\ y_pred = <<>>
    /\ cm = <<>>
    /\ accuracy = NoValue
    /\ stdout = <<>>
    /\ trace = <<>>
    /\ searched = <<>>
    /\ stdin = <<"k","n","n">>
    /\ csv = <<>>
    /\ oracle = 0
    /\ rng = 0
    /\ missed_csv = NoFile
    /\ prev = NoValue

NextAgg == AggregateLog

AggSpec == InitAgg /\ [][NextAgg]_vars

(***************************************************************************)
(* Analysis.confusion alone, on 2x2 matrices drawn from a bounded set and  *)
(* on the matrix TP = 50, TN = 30, FP = 10, FN = 10.                        *)
(***************************************************************************)
Matrices ==
    {<<<<tp, fp>>, <<fn, tn>>>> : tp \in 0..MaxCell, fp \in 0..MaxCell,
                                  fn \in 0..MaxCell, tn \in 0..MaxCell}
    \cup {<<<<50, 10>>, <<10, 30>>>>}

InitConf ==
    /\ pc = "confusion"
    /\ cm \in Matrices
    /\ model_type = "knn"
    /\ X = <<>> /\ y = <<>> /\ sessions = <<>>
    /\ class_weighting = NoValue
    /\ X_train = <<>> /\ X_test = <<>>
    /\ y_train = <<>> /\ y_test = <<>>
    /\ sessions_train = <<>> /\ sessions_test = <<>>
    /\ scaler = NoValue /\ imputer = NoValue
    /\ X_train_val = <<>> /\ y_train_val = <<>>
    /\ best_hypers = <<>> /\ final_hypers = <<>>
    /\ model = NoValue
    /\ y_pred = <<>>
    /\ accuracy = NoValue
    /\ stdout = <<>>
    /\ trace = <<>>
    /\ searched = <<>>
    /\ stdin = <<"k","n","n">>
    /\ csv = <<>>
    /\ oracle = 0
    /\ rng = 0
    /\ missed_csv = NoFile
    /\ prev = NoValue

\* Analysis.confusion(cm), lines 79-101
AnalysisConfusion ==
    /\ pc = "confusion"
    /\ IF ConfusionFails(cm)
       THEN Raise("raise_report") /\ UNCHANGED stdout
       ELSE stdout' = Append(stdout, confusion(cm)) /\ Advance("confusion", "exit")
    /\ UNCHANGED <<stdin, csv, oracle, rng, prev, model_type, X, y, sessions,
                   class_weighting, X_train, X_test, y_train, y_test, sessions_train,
                   sessions_test, scaler, imputer, X_train_val, y_train_val,
                   best_hypers, searched, final_hypers, model, y_pred, cm,
                   missed_csv, accuracy>>

NextConf == AnalysisConfusion

ConfSpec == InitConf /\ [][NextConf]_vars

(***************************************************************************)
(* Vocabulary of the properties.                                           *)
(***************************************************************************)
RaiseMarkers ==
    {"raise_load", "raise_run", "raise_split", "raise_kfold", "raise_search",
     "raise_build", "raise_fit", "raise_predict", "raise_report"}

\* the stages of a run that nothing interrupts
ExpectedStages ==
    <<"load", "split", "preprocess">> \o [i \in 1..KOuter |-> "search"]
    \o <<"aggregate", "build", "fit", "predict", "export", "plot">>

StagesOf(tr) ==
    IF tr # <<>> /\ tr[Len(tr)] \in RaiseMarkers THEN SubSeq(tr, 1, Len(tr) - 1) ELSE tr

IsPrefix(a, b) == Len(a) <= Len(b) /\ \A i \in DOMAIN a : a[i] = b[i]

Did(stage) == \E i \in DOMAIN trace : trace[i] = stage

TrainObs == {y_train[p].ix : p \in DOMAIN y_train}

TestObs == {y_test[p].ix : p \in DOMAIN y_test}

\* the observations outer fold k held out
HeldOut(k) == TrainObs \ searched[k]

LoopLeft == pc \in {"aggregate", "build", "fit", "predict", "report", "plot"} \/ Did("aggregate")

(***************************************************************************)
(* C1: hyperparameters is called once per outer fold, ten times in a run   *)
(* that leaves the loop and never more; each call gets rows of the Train   *)
(* partition only, namely all of Train but the fold held out, the folds    *)
(* held out being non-empty, disjoint and together the whole of Train; no  *)
(* observation of the Test partition is ever passed.                       *)
(***************************************************************************)
C1_SearchGetsTrainOnly ==
    /\ Len(searched) <= KOuter
    /\ LoopLeft => Len(searched) = KOuter
    /\ \A k \in DOMAIN searched :
          /\ searched[k] \subseteq TrainObs
          /\ searched[k] \cap TestObs = {}
          /\ HeldOut(k) # {}
          /\ \A j \in DOMAIN searched : j # k => HeldOut(j) \cap HeldOut(k) = {}
    /\ LoopLeft => UNION {HeldOut(k) : k \in DOMAIN searched} = TrainObs

C1_Witness ==
    /\ pc = "exit"
    /\ Did("plot")
    /\ Len(searched) = KOuter
    /\ TestObs # {}

(***************************************************************************)
(* C2: the stages of a run come in one order: load, split, preprocessing,  *)
(* the ten searches, one aggregation, construction, one fit on Train, one  *)
(* prediction on Test, the export.  Predictions on Test exist only once    *)
(* the ten searches are done, the Final Configuration is the aggregate of  *)
(* the whole log, and the model built from it has been fitted on Train.    *)
(***************************************************************************)
BuiltFrom(mdl, final) ==
    IF mdl.family = "gaussian_pc"
    THEN /\ mdl.params.kernel.c = final["c"]
         /\ mdl.params.kernel.l = final["l"]
         /\ mdl.params.kernel.n = final["n"]
         /\ mdl.params.max_iter_predict = final["max_iter_predict"]
    ELSE mdl.params = final

C2_StagesInOrder ==
    /\ IsPrefix(StagesOf(trace), ExpectedStages)
    /\ Cardinality({i \in DOMAIN trace : trace[i] = "predict"}) <= 1
    /\ Cardinality({i \in DOMAIN trace : trace[i] = "aggregate"}) <= 1
    /\ y_pred # <<>> =>
          /\ Len(searched) = KOuter
          /\ \A k \in DOMAIN best_hypers : Len(best_hypers[k]) = KOuter
          /\ final_hypers = Aggregate(best_hypers)
          /\ BuiltFrom(model, final_hypers)
          /\ model.fitted_on \in {"train", "train_2d"}
          /\ Len(y_pred) = Len(X_test)
    /\ (model # NoValue /\ model.fitted_on = "train_2d") => Did("export")

C2_Witness ==
    /\ pc = "exit"
    /\ trace = ExpectedStages
    /\ y_pred # <<>>

(***************************************************************************)
(* C5: at every position of the Train and of the Test partition the        *)
(* feature row, the label and the session identifier are those of one      *)
(* observation of the CSV, and at every position of an outer fold's slice  *)
(* the feature row and the label are those of one observation.             *)
(***************************************************************************)
\* the feature row of observation o as the program holds it at this point
RowOf(o, row) ==
    IF scaler = NoValue
    THEN row.ix = o /\ row.x = csv[o + 1].x
    ELSE /\ row.obs = o
         /\ row.x = Standardise(scaler, IF csv[o + 1].x = NaN THEN FillValue
                                           ELSE csv[o + 1].x[1])

AlignedPartition(Xs, ys, ss) ==
    /\ Len(Xs) = Len(ys)
    /\ Len(ss) = Len(ys)
    /\ \A p \in DOMAIN ys :
          LET o == ys[p].ix
          IN  /\ o \in 0..(Len(csv) - 1)
              /\ ys[p].v = csv[o + 1].State
              /\ ss[p].ix = o
              /\ ss[p].v = csv[o + 1].Filename
              /\ RowOf(o, Xs[p])

AlignedSlice(Xs, ys) ==
    /\ Len(Xs) = Len(ys)
    /\ \A p \in DOMAIN ys :
          LET o == ys[p].ix
          IN  /\ o \in 0..(Len(csv) - 1)
              /\ ys[p].v = csv[o + 1].State
              /\ RowOf(o, Xs[p])

C5_IndexAligned ==
    /\ AlignedPartition(X_train, y_train, sessions_train)
    /\ AlignedPartition(X_test, y_test, sessions_test)
    /\ AlignedSlice(X_train_val, y_train_val)

\* a slice of a later fold, of a partition that the split has reordered
C5_Witness ==
    /\ Len(searched) = KOuter
    /\ X_train_val # <<>>
    /\ \E p \in DOMAIN y_train : y_train[p].ix # p - 1
    /\ \E p \in DOMAIN y_train_val : y_train_val[p].ix # y_train[p].ix

(***************************************************************************)
(* C7: once run_model has written misclassified_sessions.csv, the file     *)
(* holds the session identifiers of exactly those observations of the Test *)
(* partition whose predicted label differs from the label the CSV gives    *)
(* them: none that was predicted correctly, none of the Train partition.   *)
(***************************************************************************)
\* the position observation o has in the Test partition
TestPos(o) == CHOOSE p \in DOMAIN X_test : X_test[p].obs = o

C7_ExportsMisclassified ==
    Did("export") =>
        /\ missed_csv.exists
        /\ Range(missed_csv.rows) =
              {csv[o + 1].Filename : o \in {t \in TestObs : csv[t + 1].State # y_pred[TestPos(t)]}}
        /\ \A o \in TrainObs : csv[o + 1].Filename \notin Range(missed_csv.rows)

C7_Witness ==
    /\ Did("export")
    /\ Len(missed_csv.rows) > 0
    /\ Len(missed_csv.rows) < Len(y_test)

(***************************************************************************)
(* C8: a stage that raises ends the run: the failure is the last thing     *)
(* that happens, no step is enabled after it (no later stage, no second    *)
(* attempt), and when it happens in the split, a search, the aggregation,  *)
(* the construction or the final fit or prediction, no file has been       *)
(* written and no accuracy returned.                                       *)
(***************************************************************************)
C8_FailureAborts ==
    \A i \in DOMAIN trace :
        trace[i] \in RaiseMarkers =>
            /\ i = Len(trace)
            /\ pc = "raised"
            /\ ~ENABLED Next
            /\ ~Did("export")
            /\ ~Did("plot")
            /\ missed_csv = NoFile
            /\ accuracy = NoValue
            /\ Cardinality({j \in DOMAIN trace : trace[j] \in RaiseMarkers}) = 1

\* the final fit raises after ten searches
C8_Witness ==
    /\ pc = "raised"
    /\ trace[Len(trace)] = "raise_fit"
    /\ Len(searched) = KOuter

(***************************************************************************)
(* C9: when what is typed is not a key of model_functions, main prints     *)
(* that the model is not supported and returns: nothing is loaded, nothing *)
(* is searched, fitted or written and no step follows.  The evaluator is   *)
(* only ever started with a model_type that has a grid and a constructor.  *)
(***************************************************************************)
Unsupported == StripLower(stdin) \notin DOMAIN model_functions

EvaluatorStarted ==
    \/ pc \in {"split", "preprocess", "outer", "aggregate", "build", "fit",
               "predict", "report", "plot"}
    \/ \E i \in DOMAIN trace : trace[i] \notin {"load", "raise_load", "raise_run"}

C9_UnknownFamilyRejected ==
    /\ Unsupported =>
          /\ pc \in {"main", "exit"}
          /\ pc = "exit" => (stdout = <<"not supported">> /\ ~ENABLED Next)
          /\ X = <<>> /\ y = <<>> /\ sessions = <<>>
          /\ model_type = "None"
          /\ trace = <<>>
          /\ searched = <<>>
          /\ model = NoValue
          /\ missed_csv = NoFile
    /\ EvaluatorStarted =>
          /\ ~Unsupported
          /\ HasGrid(model_type)
          /\ HasConstructor(model_type)

C9_Witness ==
    /\ pc = "exit"
    /\ stdin = <<"r","a","n","d","o","m","_","f","o","r","e","s","t">>
    /\ stdout = <<"not supported">>

(***************************************************************************)
(* Vocabulary of the aggregation properties.                               *)
(***************************************************************************)
Aggregated == Did("aggregate")

AllNumeric(value) == \A p \in DOMAIN value : value[p].t \in {"int", "float", "bool"}

AllDiscrete(value) == \A p \in DOMAIN value : value[p].t \in {"int", "str", "bool"}

SomeFloat(value) == \E p \in DOMAIN value : value[p].t = "float"

\* the number v is, as a fraction of units of 1e-5
Numerator(v) == IF v.t = "float" THEN v.num ELSE AsUnits(v)

Denominator(v) == IF v.t = "float" THEN v.den ELSE 1

\* v is, as a number, the arithmetic mean of value
IsMeanOf(v, value) ==
    /\ v.t \in {"int", "float", "bool"}
    /\ Denominator(v) > 0
    /\ Numerator(v) * Len(value)
          = Denominator(v) * SumSeq([p \in DOMAIN value |-> AsUnits(value[p])])

Occurrences(v, value) == Cardinality({p \in DOMAIN value : PyEq(value[p], v)})

FirstLogged(v, value) == CHOOSE p \in DOMAIN value :
    PyEq(value[p], v) /\ \A q \in 1..(p - 1) : ~PyEq(value[q], v)

\* v is the most frequent value of value, the earliest logged among equals
IsModeOf(v, value) ==
    /\ \E p \in DOMAIN value : value[p] = v
    /\ \A p \in DOMAIN value :
          \/ Occurrences(v, value) > Occurrences(value[p], value)
          \/ /\ Occurrences(v, value) = Occurrences(value[p], value)
             /\ FirstLogged(v, value) <= FirstLogged(value[p], value)

(***************************************************************************)
(* C3 as stated: a name whose per-fold values are all numeric, integers    *)
(* or floats, gets their arithmetic mean.                                  *)
(***************************************************************************)
C3_NumericGetsMean ==
    Aggregated =>
        \A k \in DOMAIN best_hypers :
            AllNumeric(best_hypers[k]) =>
                k \in DOMAIN final_hypers /\ IsMeanOf(final_hypers[k], best_hypers[k])

(***************************************************************************)
(* C3 amended: a name whose per-fold values are all numeric and at least   *)
(* one of them a float gets their arithmetic mean.                         *)
(***************************************************************************)
C3_FloatGetsMean ==
    Aggregated =>
        \A k \in DOMAIN best_hypers :
            (AllNumeric(best_hypers[k]) /\ SomeFloat(best_hypers[k])) =>
                /\ k \in DOMAIN final_hypers
                /\ final_hypers[k].t = "float"
                /\ IsMeanOf(final_hypers[k], best_hypers[k])

\* the log {"C": [0.1, 0.3, 0.2]} aggregated to 0.2
C3_Witness ==
    /\ Aggregated
    /\ "p" \in DOMAIN best_hypers
    /\ best_hypers["p"] = <<PyFloat(Unit \div 10), PyFloat((3 * Unit) \div 10),
                            PyFloat(Unit \div 5)>>
    /\ final_hypers["p"] = PyFloat(Unit \div 5)

(***************************************************************************)
(* C4: a name whose per-fold values are all integers or strings gets the   *)
(* most frequent of them, the earliest logged among equally frequent ones; *)
(* for all-integer values that is the value kept, not their mean.          *)
(***************************************************************************)
C4_DiscreteGetsMode ==
    Aggregated =>
        \A k \in DOMAIN best_hypers :
            AllDiscrete(best_hypers[k]) =>
                /\ k \in DOMAIN final_hypers
                /\ final_hypers[k].t # "float"
                /\ IsModeOf(final_hypers[k], best_hypers[k])

\* integers 2, 1: a tie, the first logged wins, and it is not the mean 1.5
C4_Witness ==
    /\ Aggregated
    /\ "p" \in DOMAIN best_hypers
    /\ best_hypers["p"] = <<PyInt(2), PyInt(1)>>
    /\ final_hypers["p"] = PyInt(2)

(***************************************************************************)
(* Vocabulary of the two-run properties.                                   *)
(***************************************************************************)
\* both runs went through to the end
BothComplete ==
    /\ prev # NoValue
    /\ \E i \in DOMAIN prev.trace : prev.trace[i] = "plot"
    /\ pc = "exit"
    /\ Did("plot")

\* the rows of the CSV that make the Train partition of this run, in order
TrainRows == [p \in DOMAIN y_train |-> csv[y_train[p].ix + 1]]

SameTuning ==
    /\ best_hypers = prev.best_hypers
    /\ final_hypers = prev.final_hypers

(***************************************************************************)
(* C6 as stated: two complete runs of one family whose CSVs differ, but    *)
(* not in the Train partition, agree on the fitted imputer and scaler, on  *)
(* the Per-Fold Configuration Log and on the Final Configuration.          *)
(***************************************************************************)
C6_TestDoesNotInterfere ==
    (BothComplete /\ prev.model_type = model_type /\ prev.train = TrainRows
       /\ prev.csv # csv) =>
        /\ imputer = prev.imputer
        /\ scaler = prev.scaler
        /\ SameTuning

\* the same, for the families whose estimators do not read the global generator
NonInterferenceSeeded ==
    (BothComplete /\ prev.model_type = model_type /\ prev.train = TrainRows
       /\ prev.csv # csv /\ ~UsesGlobalRng(model_type)) =>
        /\ imputer = prev.imputer
        /\ scaler = prev.scaler
        /\ SameTuning

\* the imputer and the scaler alone, for every family
TransformsIgnoreTest ==
    (BothComplete /\ prev.train = TrainRows) =>
        /\ imputer = prev.imputer
        /\ scaler = prev.scaler

\* two complete runs on the same Train partition and a different Test partition
TwoRunsDifferInTest ==
    /\ BothComplete
    /\ prev.train = TrainRows
    /\ prev.csv # csv
    /\ ~UsesGlobalRng(model_type)

(***************************************************************************)
(* C10 as stated: two complete runs on the same CSV with the same answer   *)
(* at the prompt agree on the Per-Fold Configuration Log, on the Final     *)
(* Configuration and on the accuracy.                                      *)
(***************************************************************************)
C10_Idempotent ==
    (BothComplete /\ prev.stdin = stdin /\ prev.csv = csv) =>
        /\ SameTuning
        /\ accuracy = prev.accuracy

\* the same, for the families whose estimators do not read the global generator
IdempotentSeeded ==
    (BothComplete /\ prev.stdin = stdin /\ prev.csv = csv /\ ~UsesGlobalRng(model_type)) =>
        /\ SameTuning
        /\ accuracy = prev.accuracy
        /\ y_pred = prev.y_pred

(***************************************************************************)
(* Vocabulary of the confusion statistics.                                 *)
(***************************************************************************)
\* Analysis.confusion has printed the statistics of cm
ConfusionPrinted ==
    /\ Len(cm) = 2
    /\ Did("confusion") \/ Did("export") \/ Did("raise_report")

confusion_stats == stdout[Len(stdout)]

\* the cells as Analysis.confusion names them
CellTP == cm[1][1]

CellTN == cm[2][2]

CellFP == cm[1][2]

CellFN == cm[2][1]

CellTotal == CellTP + CellTN + CellFP + CellFN

\* v is the number a / b
IsQuotient(v, a, b) == v.t = "float" /\ v.den > 0 /\ v.num * b = v.den * a

IsNan(v) == v.t = "nan"

\* v + w = 1
SumsToOne(v, w) ==
    /\ v.t = "float" /\ w.t = "float"
    /\ v.num * w.den + w.num * v.den = v.den * w.den

\* each statistic whose divisor is not zero is the quotient of the formula
FormulasHold ==
    /\ CellTotal > 0 =>
          /\ IsQuotient(confusion_stats.model_accuracy, CellTP + CellTN, CellTotal)
          /\ IsQuotient(confusion_stats.model_error, CellFP + CellFN, CellTotal)
    /\ CellTP + CellFP > 0 =>
          IsQuotient(confusion_stats.precision, CellTP, CellTP + CellFP)
    /\ CellTP + CellFN > 0 =>
          /\ IsQuotient(confusion_stats.recall, CellTP, CellTP + CellFN)
          /\ IsQuotient(confusion_stats.true_positive_rate, CellTP, CellTP + CellFN)
    /\ CellFP + CellTN > 0 =>
          /\ IsQuotient(confusion_stats.false_positive_rate, CellFP, CellFP + CellTN)
          /\ IsQuotient(confusion_stats.specificity, CellTN, CellTN + CellFP)

(***************************************************************************)
(* C11 as stated: the statistics are the quotients of the formulas, and    *)
(* for every matrix accuracy + error = 1 and specificity + false positive  *)
(* rate = 1.                                                               *)
(***************************************************************************)
C11_ConfusionStats ==
    ConfusionPrinted =>
        /\ FormulasHold
        /\ SumsToOne(confusion_stats.model_accuracy, confusion_stats.model_error)
        /\ SumsToOne(confusion_stats.specificity, confusion_stats.false_positive_rate)

(***************************************************************************)
(* C11 amended: the statistics are the quotients of the formulas; a        *)
(* statistic whose divisor is zero is nan; accuracy + error = 1 when the   *)
(* matrix is not all zero, and specificity + false positive rate = 1 when  *)
(* FP + TN is not zero.                                                    *)
(***************************************************************************)
C11_ConfusionStatsDefined ==
    ConfusionPrinted =>
        /\ FormulasHold
        /\ IF CellTotal > 0
           THEN SumsToOne(confusion_stats.model_accuracy, confusion_stats.model_error)
           ELSE IsNan(confusion_stats.model_accuracy) /\ IsNan(confusion_stats.model_error)
        /\ IF CellFP + CellTN > 0
           THEN SumsToOne(confusion_stats.specificity, confusion_stats.false_positive_rate)
           ELSE /\ IsNan(confusion_stats.specificity)
                /\ IsNan(confusion_stats.false_positive_rate)
        /\ CellTP + CellFP = 0 => IsNan(confusion_stats.precision)
        /\ CellTP + CellFN = 0 =>
              IsNan(confusion_stats.recall) /\ IsNan(confusion_stats.true_positive_rate)

\* TP = 50, TN = 30, FP = 10, FN = 10: accuracy 0.8, precision and recall
\* 50/60, specificity 30/40
C11_Witness ==
    /\ ConfusionPrinted
    /\ CellTP = 50 /\ CellTN = 30 /\ CellFP = 10 /\ CellFN = 10
    /\ confusion_stats.model_accuracy = [t |-> "float", num |-> 4, den |-> 5]
    /\ confusion_stats.precision = [t |-> "float", num |-> 5, den |-> 6]
    /\ confusion_stats.recall = [t |-> "float", num |-> 5, den |-> 6]
    /\ confusion_stats.specificity = [t |-> "float", num |-> 3, den |-> 4]

\* a run of the program whose classifier predicts no Test row as class 1:
\* FP + TN = 0 and the specificity printed is nan
UndefinedSpecificityInRun ==
    /\ Did("export")
    /\ CellFP + CellTN = 0
    /\ IsNan(confusion_stats.specificity)


(***************************************************************************)
(* C12: once the aggregation has run, every name of the Per-Fold           *)
(* Configuration Log has a value in the Final Configuration and no other   *)
(* name has one: the two key sets are equal.                               *)
(***************************************************************************)
C12_AggregationTotal ==
    Aggregated => DOMAIN final_hypers = DOMAIN best_hypers

\* the names the two ifs of lines 180 and 183 assign: no other name of the
\* log reaches the Final Configuration, and no name comes from elsewhere
KeptKeys ==
    Aggregated =>
        DOMAIN final_hypers =
            {k \in DOMAIN best_hypers :
                AllNumeric(best_hypers[k]) \/ AllDiscrete(best_hypers[k])}

\* a random_forest run: max_depth was logged in every fold and the model is
\* built from a Final Configuration without it
MaxDepthDropped ==
    /\ Did("build")
    /\ model_type = "random_forest"
    /\ "max_depth" \in DOMAIN best_hypers
    /\ Len(best_hypers["max_depth"]) = KOuter
    /\ "max_depth" \notin DOMAIN final_hypers

====
